---- MODULE Spec2Model ----
(***************************************************************************)
(* Sales tracking backend (src/backend/server.py): the transaction ledger, *)
(* the inventory store, the metrics calculator and the inventory           *)
(* synchronizer, as a state machine over the two MongoDB collections.      *)
(*                                                                         *)
(* Every request handler is an asyncio coroutine: it runs atomically       *)
(* between two awaits, and every await is a database call.  A handler is   *)
(* therefore modelled as one action per database call; the Python code     *)
(* that runs before a call belongs to the step that ends with the call's   *)
(* effect, except datetime.utcnow(), which is read where the code          *)
(* evaluates it.                                                           *)
(*                                                                         *)
(* Abstractions: money amounts are integers and profit_margin is an exact  *)
(* fraction [num, den] in lowest terms (the code computes floats); an      *)
(* Optional value is <<>> (None) or <<v>>; a uuid4 is the next value of a  *)
(* counter; a datetime is a number of microseconds, and MongoDB keeps      *)
(* datetimes to the millisecond (BSON), so a stored timestamp is the       *)
(* written one truncated.                                                  *)
(***************************************************************************)
EXTENDS Integers, Sequences, FiniteSets, TLC

VARIABLES
    transactions,   \* db.transactions: the stored documents, in natural order
    inventory,      \* db.inventory: the stored documents, in natural order
    now,            \* the last value datetime.utcnow() returned
    nextId,         \* the next uuid4
    pc,             \* pc[p]: where request slot p stands in its handler
    local,          \* local[p]: the locals of the handler slot p runs
    requests,       \* the number of requests accepted so far
    call            \* the metrics calculator applied to one input (MetricsSpec)

vars == <<transactions, inventory, now, nextId, pc, local, requests, call>>

(***************************************************************************)
(* Bounds of the model.                                                    *)
(***************************************************************************)
NumProcs == 2
MaxRequests == 3
MaxClock == 1
MaxMoney == 15
MaxQuantity == 5
MaxRecords == 3

Procs == 1..NumProcs
\* The identifiers a request of the run may name.
Ids == 1..MaxRequests
\* The clock readings of a run, in microseconds: every half millisecond from
\* the first one, which is not a whole millisecond.
Instants == {500 + k * 500 : k \in 0..MaxClock}

(***************************************************************************)
(* Values.                                                                 *)
(***************************************************************************)
None == <<>>
Some(v) == <<v>>

Date(y, m, d) == [year |-> y, month |-> m, day |-> d]

\* date.isoformat(): "YYYY-MM-DD" as its ten characters, a digit as itself
\* and "-" as -1; Python compares strings as these sequences compare.
isoformat(d) ==
    << d.year \div 1000, (d.year \div 100) % 10, (d.year \div 10) % 10,
       d.year % 10, -1, d.month \div 10, d.month % 10, -1,
       d.day \div 10, d.day % 10 >>

\* datetime.fromisoformat(s).date()
fromisoformat(s) ==
    Date(s[1] * 1000 + s[2] * 100 + s[3] * 10 + s[4],
         s[6] * 10 + s[7], s[9] * 10 + s[10])

\* date.today(): the run is within one day.
date_today == Date(2024, 1, 10)

RECURSIVE GCD(_, _)
GCD(a, b) == IF b = 0 THEN a ELSE GCD(b, a % b)

Abs(n) == IF n < 0 THEN -n ELSE n

\* The quotient n / d (d > 0) as a fraction in lowest terms.
Ratio(n, d) ==
    LET g == GCD(Abs(n), d)
    IN  [num |-> n \div g, den |-> d \div g]

(***************************************************************************)
(* calculate_transaction_metrics                                           *)
(***************************************************************************)
\* A slip: the margin is taken on the cost.
calculate_transaction_metrics_margin_on_cost(transaction_data) ==
    LET purchase_cost == transaction_data.purchase_cost
        retail_price == transaction_data.retail_price
        quantity == transaction_data.quantity
        profit_per_item == retail_price - purchase_cost
    IN  [profit |-> profit_per_item * quantity,
         revenue |-> retail_price * quantity,
         profit_margin |-> IF purchase_cost > 0
                           THEN Ratio(profit_per_item * 100, purchase_cost)
                           ELSE Ratio(0, 1)]

calculate_transaction_metrics(transaction_data) ==
    LET purchase_cost == transaction_data.purchase_cost
        retail_price == transaction_data.retail_price
        quantity == transaction_data.quantity
        profit_per_item == retail_price - purchase_cost
        total_profit == profit_per_item * quantity
        total_revenue == retail_price * quantity
        profit_margin == IF retail_price > 0
                         THEN Ratio(profit_per_item * 100, retail_price)
                         ELSE Ratio(0, 1)
    IN  [profit |-> total_profit,
         revenue |-> total_revenue,
         profit_margin |-> profit_margin]

(***************************************************************************)
(* The MongoDB collection calls the handlers use.  A collection is the     *)
(* sequence of its documents; find_one, update_one and delete_one act on   *)
(* the first document that matches.                                        *)
(***************************************************************************)
\* BSON keeps a datetime as milliseconds: the microseconds are dropped.
bson_datetime(t) == (t \div 1000) * 1000

bson(doc) ==
    [f \in DOMAIN doc |->
        IF f \in {"created_at", "updated_at"} THEN bson_datetime(doc[f])
        ELSE doc[f]]

Matches(coll, field, value) ==
    {i \in 1..Len(coll) : coll[i][field] = value}

FirstMatch(coll, field, value) ==
    CHOOSE i \in Matches(coll, field, value) :
        \A j \in Matches(coll, field, value) : i <= j

find_one(coll, field, value) ==
    IF Matches(coll, field, value) = {} THEN None
    ELSE Some(coll[FirstMatch(coll, field, value)])

insert_one(coll, doc) == Append(coll, bson(doc))

\* {**a, **b}: the fields of b over those of a.
Merge(a, b) ==
    [f \in DOMAIN a \cup DOMAIN b |-> IF f \in DOMAIN b THEN b[f] ELSE a[f]]

update_one(coll, field, value, set) ==
    IF Matches(coll, field, value) = {} THEN coll
    ELSE [coll EXCEPT ![FirstMatch(coll, field, value)] = Merge(@, bson(set))]

delete_one(coll, field, value) ==
    IF Matches(coll, field, value) = {} THEN coll
    ELSE LET i == FirstMatch(coll, field, value)
         IN  SubSeq(coll, 1, i - 1) \o SubSeq(coll, i + 1, Len(coll))

deleted_count(coll, field, value) ==
    IF Matches(coll, field, value) = {} THEN 0 ELSE 1

\* The length every handler passes to to_list.
to_list_length == 1000

\* cursor.to_list(length): at most length documents, in the cursor's order.
to_list(coll, length) ==
    SubSeq(coll, 1, IF Len(coll) < length THEN Len(coll) ELSE length)

\* find().sort(field, -1): the documents in descending order of the field.
\* MongoDB does not define the order of documents of equal field values:
\* every order of them is a result.
sort_descending(coll, field) ==
    LET orders == {order \in Permutations(1..Len(coll)) :
                      \A i, j \in 1..Len(coll) :
                          i < j => coll[order[i]][field] >= coll[order[j]][field]}
    IN  {[k \in 1..Len(coll) |-> coll[order[k]]] : order \in orders}

(***************************************************************************)
(* Responses and handler positions.  A response is what the handler        *)
(* returns (200) or the HTTPException it raises (404).                     *)
(***************************************************************************)
Ok(body) == [status |-> 200, body |-> Some(body)]
Deleted == [status |-> 200, body |-> None]
NotFound == [status |-> 404, body |-> None]
\* A pydantic ValidationError raised while the response is built.
InternalServerError == [status |-> 500, body |-> None]

Idle == [handler |-> "idle"]

\* datetime.utcnow() returns t: the clock does not run backwards.
utcnow(t) == t >= now /\ now' = t

\* A free slot accepts a request; a run holds MaxRequests requests.
Accept(p) ==
    /\ pc[p] = "idle"
    /\ requests < MaxRequests
    /\ requests' = requests + 1

\* The handler of slot p returns or raises: the slot is free again.
Return(p) ==
    /\ pc' = [pc EXCEPT ![p] = "idle"]
    /\ local' = [local EXCEPT ![p] = Idle]

Goto(p, label, locals) ==
    /\ pc' = [pc EXCEPT ![p] = label]
    /\ local' = [local EXCEPT ![p] = locals]

(***************************************************************************)
(* Sales transaction endpoints.                                            *)
(***************************************************************************)
\* What the handlers read back from a stored sale document.
transaction_from_db(transaction) ==
    [transaction EXCEPT !.date_sold = fromisoformat(@)]

\* What the handlers store of a SalesTransaction.
transaction_for_db(transaction_obj) ==
    [transaction_obj EXCEPT !.date_sold = isoformat(@)]

\* SalesTransaction(**transaction_dict) of create_transaction.
NewSalesTransaction(input, id, t) ==
    LET transaction_dict ==
            [item_name |-> input.item_name,
             purchase_cost |-> input.purchase_cost,
             retail_price |-> input.retail_price,
             quantity |-> input.quantity,
             date_sold |-> IF input.date_sold = None THEN date_today
                           ELSE input.date_sold[1]]
        metrics == calculate_transaction_metrics(transaction_dict)
    IN  Merge(Merge(transaction_dict, metrics),
              [id |-> id, created_at |-> t])

\* A slip: the sale is not inserted before the inventory is adjusted.
create_transaction_unpersisted(p, input, t) ==
    /\ Accept(p)
    /\ utcnow(t)
    /\ Goto(p, "update_inventory_on_sale",
            [handler |-> "create_transaction",
             transaction_obj |-> NewSalesTransaction(input, nextId, t)])
    /\ nextId' = nextId + 1
    /\ UNCHANGED <<transactions, inventory, call>>

\* create_transaction up to the end of db.transactions.insert_one.
create_transaction(p, input, t) ==
    /\ Accept(p)
    /\ utcnow(t)
    /\ LET transaction_obj == NewSalesTransaction(input, nextId, t)
       IN  /\ transactions' =
                 insert_one(transactions, transaction_for_db(transaction_obj))
           /\ Goto(p, "update_inventory_on_sale",
                   [handler |-> "create_transaction",
                    transaction_obj |-> transaction_obj])
    /\ nextId' = nextId + 1
    /\ UNCHANGED <<inventory, call>>

\* A slip: the item names are compared without their case.
Lower(item_name) == IF item_name = "Case" THEN "case" ELSE item_name

find_inventory_item_ignoring_case(item_name) ==
    LET found == {i \in 1..Len(inventory) :
                     Lower(inventory[i].item_name) = Lower(item_name)}
    IN  IF found = {} THEN None
        ELSE Some(inventory[CHOOSE i \in found : \A j \in found : i <= j])

\* db.inventory.find_one({"item_name": item_name})
find_inventory_item(item_name) == find_one(inventory, "item_name", item_name)

\* update_inventory_on_sale: db.inventory.find_one finds no stock record, and
\* create_transaction returns local[p].transaction_obj.
update_inventory_on_sale_none(p) ==
    /\ pc[p] = "update_inventory_on_sale"
    /\ find_inventory_item(local[p].transaction_obj.item_name) = None
    /\ Return(p)
    /\ UNCHANGED <<transactions, inventory, now, nextId, requests, call>>

\* A slip: the clamp to 0 is left out.
new_quantity_unclamped(quantity_in_stock, quantity_sold) ==
    quantity_in_stock - quantity_sold

\* A slip: the sold quantity is added.
new_quantity_added(quantity_in_stock, quantity_sold) ==
    quantity_in_stock + quantity_sold

\* A slip: the sold quantity is taken off twice.
new_quantity_taken_twice(quantity_in_stock, quantity_sold) ==
    IF quantity_in_stock - 2 * quantity_sold < 0 THEN 0
    ELSE quantity_in_stock - 2 * quantity_sold

new_quantity(quantity_in_stock, quantity_sold) ==
    IF quantity_in_stock - quantity_sold < 0 THEN 0
    ELSE quantity_in_stock - quantity_sold

\* update_inventory_on_sale: db.inventory.find_one finds a stock record; the
\* $set of the coming update_one is evaluated.
update_inventory_on_sale_find(p, t) ==
    /\ pc[p] = "update_inventory_on_sale"
    /\ LET item_name == local[p].transaction_obj.item_name
           quantity_sold == local[p].transaction_obj.quantity
           inventory_item == find_inventory_item(item_name)
       IN  /\ inventory_item # None
           /\ utcnow(t)
           /\ Goto(p, "update_inventory_on_sale_update",
                   Merge(local[p],
                         [set |-> [quantity_in_stock |->
                                       new_quantity(inventory_item[1].quantity_in_stock,
                                                    quantity_sold),
                                   updated_at |-> t]]))
    /\ UNCHANGED <<transactions, inventory, nextId, requests, call>>

\* update_inventory_on_sale: db.inventory.update_one, then create_transaction
\* returns local[p].transaction_obj.
update_inventory_on_sale_update(p) ==
    /\ pc[p] = "update_inventory_on_sale_update"
    /\ inventory' = update_one(inventory, "item_name",
                               local[p].transaction_obj.item_name, local[p].set)
    /\ Return(p)
    /\ UNCHANGED <<transactions, now, nextId, requests, call>>

\* A slip: the sale is taken back when the inventory could not be adjusted.
update_inventory_on_sale_raises_rolling_back(p) ==
    /\ pc[p] \in {"update_inventory_on_sale", "update_inventory_on_sale_update"}
    /\ transactions' = delete_one(transactions, "id", local[p].transaction_obj.id)
    /\ Goto(p, "create_transaction_raised",
            [handler |-> "create_transaction",
             transaction_obj |-> local[p].transaction_obj,
             raised |-> InternalServerError])
    /\ UNCHANGED <<inventory, now, nextId, requests, call>>

\* update_inventory_on_sale: db.inventory.find_one or db.inventory.update_one
\* raises (the database is not reached) and has written nothing.  Neither
\* update_inventory_on_sale nor create_transaction catches the exception.
update_inventory_on_sale_raises(p) ==
    /\ pc[p] \in {"update_inventory_on_sale", "update_inventory_on_sale_update"}
    /\ Goto(p, "create_transaction_raised",
            [handler |-> "create_transaction",
             transaction_obj |-> local[p].transaction_obj,
             raised |-> InternalServerError])
    /\ UNCHANGED <<transactions, inventory, now, nextId, requests, call>>

\* create_transaction has raised: the request is answered local[p].raised.
create_transaction_raised(p) ==
    /\ pc[p] = "create_transaction_raised"
    /\ Return(p)
    /\ UNCHANGED <<transactions, inventory, now, nextId, requests, call>>

\* The response of get_transaction.
get_transaction_response(coll, transaction_id) ==
    LET transaction == find_one(coll, "id", transaction_id)
    IN  IF transaction = None THEN NotFound
        ELSE Ok(transaction_from_db(transaction[1]))

get_transaction(p, transaction_id) ==
    /\ Accept(p)
    /\ get_transaction_response(transactions, transaction_id).status \in {200, 404}
    /\ UNCHANGED <<transactions, inventory, now, nextId, pc, local, call>>

\* The responses get_transactions may give.
get_transactions_responses(coll) ==
    {Ok([k \in 1..Len(to_list(sorted_docs, to_list_length)) |->
            transaction_from_db(sorted_docs[k])]) :
        sorted_docs \in sort_descending(coll, "created_at")}

get_transactions(p) ==
    /\ Accept(p)
    /\ \E response \in get_transactions_responses(transactions) :
           response.status = 200
    /\ UNCHANGED <<transactions, inventory, now, nextId, pc, local, call>>

\* The HTTPException update_transaction raises after db.transactions.find_one,
\* if it raises one.
update_transaction_raises(coll, transaction_id) ==
    IF find_one(coll, "id", transaction_id) = None THEN Some(NotFound) ELSE None

\* A slip: the metrics of the existing record are kept.
UpdatedSalesTransaction_stale_metrics(existing_transaction, update_data, t) ==
    Merge(Merge(existing_transaction, update_data), [created_at |-> t])

\* A slip: a quantity the request does not set falls back to the default.
UpdatedSalesTransaction_default_quantity(existing_transaction, update_data, t) ==
    LET transaction_dict ==
            Merge(Merge(existing_transaction, [quantity |-> 1]), update_data)
        metrics == calculate_transaction_metrics(transaction_dict)
    IN  Merge(Merge(transaction_dict, metrics), [created_at |-> t])

\* The merged SalesTransaction of update_transaction.
UpdatedSalesTransaction(existing_transaction, update_data, t) ==
    LET transaction_dict == Merge(existing_transaction, update_data)
        metrics == calculate_transaction_metrics(transaction_dict)
    IN  Merge(Merge(transaction_dict, metrics), [created_at |-> t])

\* update_transaction up to the end of db.transactions.find_one: not found,
\* or the merged record is built.
update_transaction_find(p, transaction_id, input, t) ==
    /\ Accept(p)
    /\ IF update_transaction_raises(transactions, transaction_id) # None
       THEN UNCHANGED <<now, pc, local>>
       ELSE /\ utcnow(t)
            /\ Goto(p, "update_transaction_update",
                    [handler |-> "update_transaction",
                     transaction_id |-> transaction_id,
                     update_data |-> input,
                     updated_transaction |->
                         UpdatedSalesTransaction(
                             transaction_from_db(
                                 find_one(transactions, "id", transaction_id)[1]),
                             input, t)])
    /\ UNCHANGED <<transactions, inventory, nextId, call>>

\* A slip: update_one inserts the record when no document matches.
update_transaction_update_upsert(p) ==
    /\ pc[p] = "update_transaction_update"
    /\ transactions' =
           IF Matches(transactions, "id", local[p].transaction_id) = {}
           THEN insert_one(transactions,
                           transaction_for_db(local[p].updated_transaction))
           ELSE update_one(transactions, "id", local[p].transaction_id,
                           transaction_for_db(local[p].updated_transaction))
    /\ Return(p)
    /\ UNCHANGED <<inventory, now, nextId, requests, call>>

\* update_transaction: db.transactions.update_one, then the handler returns
\* local[p].updated_transaction.
update_transaction_update(p) ==
    /\ pc[p] = "update_transaction_update"
    /\ transactions' = update_one(transactions, "id", local[p].transaction_id,
                                  transaction_for_db(local[p].updated_transaction))
    /\ Return(p)
    /\ UNCHANGED <<inventory, now, nextId, requests, call>>

\* A slip: deleted_count is not looked at.
delete_transaction_response_unchecked(coll, transaction_id) == Deleted

\* The response of delete_transaction.
delete_transaction_response(coll, transaction_id) ==
    IF deleted_count(coll, "id", transaction_id) = 0 THEN NotFound ELSE Deleted

\* A slip: deleting a sale gives its quantity back to the stock.
delete_transaction_restocking(p, transaction_id) ==
    /\ Accept(p)
    /\ transactions' = delete_one(transactions, "id", transaction_id)
    /\ LET transaction == find_one(transactions, "id", transaction_id)
       IN  inventory' =
               IF transaction = None
                  \/ find_inventory_item(transaction[1].item_name) = None
               THEN inventory
               ELSE update_one(inventory, "item_name", transaction[1].item_name,
                               [quantity_in_stock |->
                                    find_inventory_item(transaction[1].item_name)[1]
                                        .quantity_in_stock
                                    + transaction[1].quantity])
    /\ UNCHANGED <<now, nextId, pc, local, call>>

delete_transaction(p, transaction_id) ==
    /\ Accept(p)
    /\ transactions' = delete_one(transactions, "id", transaction_id)
    /\ UNCHANGED <<inventory, now, nextId, pc, local, call>>

(***************************************************************************)
(* Inventory endpoints.                                                    *)
(***************************************************************************)
\* InventoryItem(**input.dict()) of create_inventory_item, which is also its
\* response.  The two default factories read the clock one after the other;
\* the record gets the one instant t for both.
NewInventoryItem(input, id, t) ==
    Merge(input, [id |-> id, created_at |-> t, updated_at |-> t])

create_inventory_item(p, input, t) ==
    /\ Accept(p)
    /\ utcnow(t)
    /\ inventory' = insert_one(inventory, NewInventoryItem(input, nextId, t))
    /\ nextId' = nextId + 1
    /\ UNCHANGED <<transactions, pc, local, call>>

\* The response of get_inventory_item.
get_inventory_item_response(coll, item_id) ==
    LET item == find_one(coll, "id", item_id)
    IN  IF item = None THEN NotFound ELSE Ok(item[1])

get_inventory_item(p, item_id) ==
    /\ Accept(p)
    /\ get_inventory_item_response(inventory, item_id).status \in {200, 404}
    /\ UNCHANGED <<transactions, inventory, now, nextId, pc, local, call>>

\* The HTTPException update_inventory_item raises after db.inventory.find_one,
\* if it raises one.
update_inventory_item_raises(coll, item_id) ==
    IF find_one(coll, "id", item_id) = None THEN Some(NotFound) ELSE None

\* A slip: a field the request does not set falls back to its default.
UpdatedInventoryItem_defaults(existing_item, update_data, t) ==
    Merge(Merge(existing_item,
                [reorder_level |-> 5, supplier |-> None, category |-> None]),
          Merge(update_data, [updated_at |-> t]))

\* The merged InventoryItem of update_inventory_item.
UpdatedInventoryItem(existing_item, update_data, t) ==
    Merge(existing_item, Merge(update_data, [updated_at |-> t]))

\* update_inventory_item up to the end of db.inventory.find_one: not found,
\* or the merged item is built.
update_inventory_item_find(p, item_id, input, t) ==
    /\ Accept(p)
    /\ IF update_inventory_item_raises(inventory, item_id) # None
       THEN UNCHANGED <<now, pc, local>>
       ELSE /\ utcnow(t)
            /\ Goto(p, "update_inventory_item_update",
                    [handler |-> "update_inventory_item",
                     item_id |-> item_id,
                     update_data |-> input,
                     updated_item |->
                         UpdatedInventoryItem(
                             find_one(inventory, "id", item_id)[1], input, t)])
    /\ UNCHANGED <<transactions, inventory, nextId, call>>

\* update_inventory_item: db.inventory.update_one, then the handler returns
\* local[p].updated_item.
update_inventory_item_update(p) ==
    /\ pc[p] = "update_inventory_item_update"
    /\ inventory' = update_one(inventory, "id", local[p].item_id,
                               local[p].updated_item)
    /\ Return(p)
    /\ UNCHANGED <<transactions, now, nextId, requests, call>>

\* The response of delete_inventory_item.
delete_inventory_item_response(coll, item_id) ==
    IF deleted_count(coll, "id", item_id) = 0 THEN NotFound ELSE Deleted

delete_inventory_item(p, item_id) ==
    /\ Accept(p)
    /\ inventory' = delete_one(inventory, "id", item_id)
    /\ UNCHANGED <<transactions, now, nextId, pc, local, call>>

(***************************************************************************)
(* The requests of a run.                                                  *)
(***************************************************************************)
\* SalesTransactionCreate bodies.
SaleInputs ==
    {[item_name |-> "Case", purchase_cost |-> 5, retail_price |-> 10,
      quantity |-> 2, date_sold |-> None],
     [item_name |-> "Case", purchase_cost |-> 5, retail_price |-> 0,
      quantity |-> 10, date_sold |-> Some(Date(2024, 1, 9))]}

\* SalesTransactionUpdate bodies: the fields a request sets.
SaleUpdates ==
    {[purchase_cost |-> 12, quantity |-> 3],
     [item_name |-> "case", retail_price |-> 0]}

\* InventoryItemCreate bodies.
InventoryInputs ==
    {[item_name |-> "Case", purchase_cost |-> 5, suggested_retail_price |-> 15,
      quantity_in_stock |-> 5, reorder_level |-> 5, supplier |-> Some("Apple"),
      category |-> Some("Phone Accessories")],
     [item_name |-> "case", purchase_cost |-> 5, suggested_retail_price |-> 15,
      quantity_in_stock |-> -1, reorder_level |-> 5, supplier |-> None,
      category |-> None]}

\* InventoryItemUpdate bodies: the fields a request sets.
InventoryUpdates ==
    {[reorder_level |-> 2, category |-> None],
     [quantity_in_stock |-> 7]}

\* The request bodies of the concurrent runs.
Payloads ==
    [sale_inputs |-> SaleInputs, sale_updates |-> SaleUpdates,
     inventory_inputs |-> InventoryInputs, inventory_updates |-> InventoryUpdates]

\* The request bodies of the runs that serve one request at a time: more
\* of them, every base field of a sale set alone among them.
SeqPayloads ==
    [sale_inputs |->
         SaleInputs \cup
         {[item_name |-> "case", purchase_cost |-> 12, retail_price |-> 10,
           quantity |-> 1, date_sold |-> None]},
     sale_updates |->
         SaleUpdates \cup
         {[quantity |-> 10], [retail_price |-> 15], [purchase_cost |-> 0],
          [item_name |-> "Case"], [date_sold |-> Date(2024, 1, 11)]},
     inventory_inputs |->
         InventoryInputs \cup
         {[item_name |-> "Case", purchase_cost |-> 8,
           suggested_retail_price |-> 12, quantity_in_stock |-> 0,
           reorder_level |-> 5, supplier |-> None, category |-> None]},
     inventory_updates |->
         InventoryUpdates \cup
         {[item_name |-> "case"], [quantity_in_stock |-> -1]}]

NoCall == [done |-> FALSE, input |-> None, output |-> None]

Init ==
    /\ transactions = <<>>
    /\ inventory = <<>>
    /\ now = 500
    /\ nextId = 1
    /\ pc = [p \in Procs |-> "idle"]
    /\ local = [p \in Procs |-> Idle]
    /\ requests = 0
    /\ call = NoCall

\* The steps of create_transaction in slot p.
CreateTransactionStep(p, bodies) ==
    \/ \E input \in bodies.sale_inputs, t \in Instants :
           create_transaction(p, input, t)
    \/ update_inventory_on_sale_none(p)
    \/ \E t \in Instants : update_inventory_on_sale_find(p, t)
    \/ update_inventory_on_sale_update(p)

\* The steps of slot p.
Step(p, bodies) ==
    \/ CreateTransactionStep(p, bodies)
    \/ get_transactions(p)
    \/ \E id \in Ids : get_transaction(p, id)
    \/ \E id \in Ids, input \in bodies.sale_updates, t \in Instants :
           update_transaction_find(p, id, input, t)
    \/ update_transaction_update(p)
    \/ \E id \in Ids : delete_transaction(p, id)
    \/ \E input \in bodies.inventory_inputs, t \in Instants :
           create_inventory_item(p, input, t)
    \/ \E id \in Ids : get_inventory_item(p, id)
    \/ \E id \in Ids, input \in bodies.inventory_updates, t \in Instants :
           update_inventory_item_find(p, id, input, t)
    \/ update_inventory_item_update(p)
    \/ \E id \in Ids : delete_inventory_item(p, id)

\* Requests are served concurrently.
Next == \E p \in Procs : Step(p, Payloads)

Spec == Init /\ [][Next]_vars

\* Requests are served one at a time: one slot serves them all.
SeqNext == Step(1, SeqPayloads)

SeqSpec == Init /\ [][SeqNext]_vars

(***************************************************************************)
(* Requests served one at a time by a database that may fail while         *)
(* update_inventory_on_sale runs.                                          *)
(***************************************************************************)
FailureNext ==
    \/ Step(1, SeqPayloads)
    \/ update_inventory_on_sale_raises(1)
    \/ create_transaction_raised(1)

FailureSpec == Init /\ [][FailureNext]_vars

(***************************************************************************)
(* Concurrent sales of one item: the store holds one stock record, of      *)
(* the item of RaceItem, and every request creates a sale.                 *)
(***************************************************************************)
RaceItem ==
    CHOOSE input \in InventoryInputs : input.quantity_in_stock > 0

\* Sales of 1..MaxQuantity pieces of the item, and one of another item.
RaceSaleInputs ==
    {[item_name |-> RaceItem.item_name, purchase_cost |-> 5,
      retail_price |-> 10, quantity |-> k, date_sold |-> None] :
        k \in 1..MaxQuantity}
    \cup {[item_name |-> "case", purchase_cost |-> 5, retail_price |-> 10,
           quantity |-> 1, date_sold |-> None]}

RaceInit ==
    /\ transactions = <<>>
    /\ inventory = insert_one(<<>>, NewInventoryItem(RaceItem, 1, 500))
    /\ now = 500
    /\ nextId = 2
    /\ pc = [p \in Procs |-> "idle"]
    /\ local = [p \in Procs |-> Idle]
    /\ requests = 1
    /\ call = NoCall

RaceNext ==
    \E p \in Procs :
        CreateTransactionStep(p, [sale_inputs |-> RaceSaleInputs])

RaceSpec == RaceInit /\ [][RaceNext]_vars

(***************************************************************************)
(* Sales of every quantity SalesTransactionCreate admits (quantity: int),  *)
(* one at a time, of the item of the one stock record or of another item.  *)
(***************************************************************************)
AdmittedSaleInputs ==
    RaceSaleInputs \cup
    {[item_name |-> RaceItem.item_name, purchase_cost |-> 5,
      retail_price |-> 10, quantity |-> k, date_sold |-> None] :
        k \in (-MaxQuantity)..0}

AdmittedNext == CreateTransactionStep(1, [sale_inputs |-> AdmittedSaleInputs])

AdmittedSpec == RaceInit /\ [][AdmittedNext]_vars

(***************************************************************************)
(* The metrics calculator alone, applied to one input.                     *)
(***************************************************************************)
MetricsInputs ==
    [purchase_cost : 0..MaxMoney, retail_price : 0..MaxMoney,
     quantity : 1..MaxQuantity]

MetricsInit ==
    /\ transactions = <<>>
    /\ inventory = <<>>
    /\ now = 500
    /\ nextId = 1
    /\ pc = [p \in Procs |-> "idle"]
    /\ local = [p \in Procs |-> Idle]
    /\ requests = 0
    /\ \E input \in MetricsInputs :
           call = [done |-> FALSE, input |-> Some(input), output |-> None]

apply_calculate_transaction_metrics ==
    /\ ~call.done
    /\ call' = [call EXCEPT
                   !.done = TRUE,
                   !.output = Some(calculate_transaction_metrics(call.input[1]))]
    /\ UNCHANGED <<transactions, inventory, now, nextId, pc, local, requests>>

MetricsNext == apply_calculate_transaction_metrics

MetricsSpec == MetricsInit /\ [][MetricsNext]_vars

(***************************************************************************)
(* Reports.  Each report reads one collection with find().to_list(1000)    *)
(* and computes its response from the documents read.                      *)
(***************************************************************************)
\* sum(...) of the numbers lo..hi of a sequence.  The numbers of the model
\* are exact, so the sum is taken by halves: a ledger of to_list_length
\* documents is summed without a deep recursion.
RECURSIVE sum_between(_, _, _)
sum_between(numbers, lo, hi) ==
    IF lo > hi THEN 0
    ELSE IF lo = hi THEN numbers[lo]
    ELSE sum_between(numbers, lo, (lo + hi) \div 2)
             + sum_between(numbers, (lo + hi) \div 2 + 1, hi)

sum(numbers) == sum_between(numbers, 1, Len(numbers))

\* The exact quotients of the model: sum and mean of profit margins.
RatioAdd(a, b) == Ratio(a.num * b.den + b.num * a.den, a.den * b.den)

RECURSIVE sum_ratios_between(_, _, _)
sum_ratios_between(ratios, lo, hi) ==
    IF lo > hi THEN Ratio(0, 1)
    ELSE IF lo = hi THEN ratios[lo]
    ELSE RatioAdd(sum_ratios_between(ratios, lo, (lo + hi) \div 2),
                  sum_ratios_between(ratios, (lo + hi) \div 2 + 1, hi))

sum_ratios(ratios) == sum_ratios_between(ratios, 1, Len(ratios))

\* A slip: every margin is counted.
all_margins(docs) == [i \in 1..Len(docs) |-> docs[i].profit_margin]

\* [t['profit_margin'] for t in transactions if t['profit_margin'] > 0]
positive_margins(docs) ==
    LET positive(margin) == margin.num > 0
    IN  SelectSeq([i \in 1..Len(docs) |-> docs[i].profit_margin], positive)

\* A dict as the sequence of its items, in insertion order.
Keys(d) == {d[k].key : k \in 1..Len(d)}

Index(d, key) == CHOOSE k \in 1..Len(d) : d[k].key = key

\* a + b, field by field, of two dicts of numbers: of item_sales, of
\* daily_sales or of daily_data.
plus(a, b) ==
    IF "quantity" \in DOMAIN a
    THEN [quantity |-> a.quantity + b.quantity]
    ELSE IF "transactions" \in DOMAIN a
    THEN [revenue |-> a.revenue + b.revenue,
          profit |-> a.profit + b.profit,
          transactions |-> a.transactions + b.transactions]
    ELSE [revenue |-> a.revenue + b.revenue, profit |-> a.profit + b.profit]

\* The dict d after d[key] += value for each item of the dict e in turn,
\* where a missing key starts from zero: the keys of d keep their places,
\* the new keys of e follow in their order.
merged(d, e) ==
    LET is_new(item) == item.key \notin Keys(d)
    IN  [k \in 1..Len(d) |->
            IF d[k].key \in Keys(e)
            THEN [key |-> d[k].key,
                  value |-> plus(d[k].value, e[Index(e, d[k].key)].value)]
            ELSE d[k]]
        \o SelectSeq(e, is_new)

\* The dict after d[key] += value for the items lo..hi in turn, taken by
\* halves as the sums are.
RECURSIVE grouped(_, _, _)
grouped(items, lo, hi) ==
    IF lo > hi THEN <<>>
    ELSE IF lo = hi THEN <<items[lo]>>
    ELSE merged(grouped(items, lo, (lo + hi) \div 2),
                grouped(items, (lo + hi) \div 2 + 1, hi))

\* item_sales of get_dashboard_stats.
item_sales(docs) ==
    LET sales == grouped([i \in 1..Len(docs) |->
                             [key |-> docs[i].item_name,
                              value |-> [quantity |-> docs[i].quantity]]],
                         1, Len(docs))
    IN  [k \in 1..Len(sales) |->
            [key |-> sales[k].key, value |-> sales[k].value.quantity]]

\* A slip: max takes the last of the greatest.
max_by_value_last(d) ==
    d[CHOOSE k \in 1..Len(d) :
          /\ \A j \in 1..Len(d) : d[j].value <= d[k].value
          /\ \A j \in (k + 1)..Len(d) : d[j].value < d[k].value].key

\* max(d, key=d.get): the first key, in insertion order, of the greatest value.
max_by_value(d) ==
    d[CHOOSE k \in 1..Len(d) :
          /\ \A j \in 1..Len(d) : d[j].value <= d[k].value
          /\ \A j \in 1..(k - 1) : d[j].value < d[k].value].key

\* The date string of a stored sale document.
date_str(t) == isoformat(fromisoformat(t.date_sold))

\* daily_sales of get_dashboard_stats.
daily_sales(docs) ==
    grouped([i \in 1..Len(docs) |->
                [key |-> date_str(docs[i]),
                 value |-> [revenue |-> docs[i].revenue,
                            profit |-> docs[i].profit,
                            transactions |-> 1]]],
            1, Len(docs))

\* The order of str: a < b.
str_less(a, b) ==
    \/ \E i \in 1..Len(a) :
           /\ i <= Len(b)
           /\ \A j \in 1..(i - 1) : a[j] = b[j]
           /\ a[i] < b[i]
    \/ Len(a) < Len(b) /\ \A j \in 1..Len(a) : a[j] = b[j]

\* A slip: sorted is left out.
unsorted(d) == d

\* sorted(d.items()): the items of a dict by ascending key.
RECURSIVE sorted(_)
sorted(d) ==
    IF d = <<>> THEN <<>>
    ELSE LET k == CHOOSE k \in 1..Len(d) :
                      \A j \in 1..Len(d) : j = k \/ str_less(d[k].key, d[j].key)
         IN  <<d[k]>> \o sorted(SubSeq(d, 1, k - 1) \o SubSeq(d, k + 1, Len(d)))

\* The response of get_dashboard_stats.
get_dashboard_stats_response(coll) ==
    LET docs == to_list(coll, to_list_length)
    IN  IF docs = <<>>
        THEN Ok([total_revenue |-> 0, total_profit |-> 0,
                 total_transactions |-> 0,
                 average_profit_margin |-> Ratio(0, 1),
                 best_selling_item |-> None, daily_sales |-> <<>>])
        ELSE LET profit_margins == positive_margins(docs)
                 margin_sum == sum_ratios(profit_margins)
                 sales == item_sales(docs)
                 daily_sales_list == sorted(daily_sales(docs))
             IN  Ok([total_revenue |->
                         sum([i \in 1..Len(docs) |-> docs[i].revenue]),
                     total_profit |->
                         sum([i \in 1..Len(docs) |-> docs[i].profit]),
                     total_transactions |-> Len(docs),
                     average_profit_margin |->
                         IF profit_margins # <<>>
                         THEN Ratio(margin_sum.num,
                                    margin_sum.den * Len(profit_margins))
                         ELSE Ratio(0, 1),
                     best_selling_item |->
                         IF sales # <<>> THEN Some(max_by_value(sales)) ELSE None,
                     daily_sales |->
                         [k \in 1..Len(daily_sales_list) |->
                             [date |-> daily_sales_list[k].key,
                              revenue |-> daily_sales_list[k].value.revenue,
                              profit |-> daily_sales_list[k].value.profit,
                              transactions |->
                                  daily_sales_list[k].value.transactions]]])

\* A slip: the profit of a date is summed from the revenue.
daily_data_revenue_twice(docs) ==
    grouped([i \in 1..Len(docs) |->
                [key |-> date_str(docs[i]),
                 value |-> [revenue |-> docs[i].revenue,
                            profit |-> docs[i].revenue]]],
            1, Len(docs))

\* daily_data of get_sales_chart.
daily_data(docs) ==
    grouped([i \in 1..Len(docs) |->
                [key |-> date_str(docs[i]),
                 value |-> [revenue |-> docs[i].revenue,
                            profit |-> docs[i].profit]]],
            1, Len(docs))

\* A slip: an empty ledger is answered as a missing resource.
get_sales_chart_response_no_data(coll) ==
    IF to_list(coll, to_list_length) = <<>> THEN NotFound
    ELSE LET docs == to_list(coll, to_list_length)
             sorted_dates == sorted(daily_data(docs))
         IN  Ok([labels |-> [k \in 1..Len(sorted_dates) |-> sorted_dates[k].key],
                 revenue_data |->
                     [k \in 1..Len(sorted_dates) |-> sorted_dates[k].value.revenue],
                 profit_data |->
                     [k \in 1..Len(sorted_dates) |-> sorted_dates[k].value.profit]])

\* The response of get_sales_chart.
get_sales_chart_response(coll) ==
    LET docs == to_list(coll, to_list_length)
    IN  IF docs = <<>>
        THEN Ok([labels |-> <<>>, revenue_data |-> <<>>, profit_data |-> <<>>])
        ELSE LET sorted_dates == sorted(daily_data(docs))
             IN  Ok([labels |->
                         [k \in 1..Len(sorted_dates) |-> sorted_dates[k].key],
                     revenue_data |->
                         [k \in 1..Len(sorted_dates) |->
                             sorted_dates[k].value.revenue],
                     profit_data |->
                         [k \in 1..Len(sorted_dates) |->
                             sorted_dates[k].value.profit]])

\* dict.get(key, default)
get(doc, key, default) == IF key \in DOMAIN doc THEN doc[key] ELSE default

\* A slip: an item out of stock is counted as low on stock too.
is_low_stock_or_out(item) == item.quantity_in_stock <= item.reorder_level

is_low_stock(item) ==
    item.quantity_in_stock <= item.reorder_level /\ item.quantity_in_stock > 0

\* The response of get_inventory_stats.  The order of list(set(...)) is not
\* defined: categories is the set of the list's elements.  A category that
\* is not a str fails the validation of InventoryStats.
get_inventory_stats_response(coll) ==
    LET items == to_list(coll, to_list_length)
        count(Test(_)) ==
            sum([i \in 1..Len(items) |-> IF Test(items[i]) THEN 1 ELSE 0])
        is_out_of_stock(item) == item.quantity_in_stock = 0
    IN  IF items = <<>>
        THEN Ok([total_items |-> 0, total_stock_value |-> 0,
                 low_stock_items |-> 0, out_of_stock_items |-> 0,
                 categories |-> {}])
        ELSE LET categories ==
                     {get(items[i], "category", Some("Uncategorized")) :
                          i \in 1..Len(items)}
             IN  IF None \in categories THEN InternalServerError
                 ELSE Ok([total_items |-> Len(items),
                          total_stock_value |->
                              sum([i \in 1..Len(items) |->
                                      items[i].purchase_cost
                                          * items[i].quantity_in_stock]),
                          low_stock_items |-> count(is_low_stock),
                          out_of_stock_items |-> count(is_out_of_stock),
                          categories |-> {c[1] : c \in categories}])

(***************************************************************************)
(* The reports alone, applied to the stores that creates leave.            *)
(***************************************************************************)
\* SalesTransactionCreate bodies: three item names, three dates, margins
\* above, at and below 0.
ReportSaleSeq ==
    <<[item_name |-> "Case", purchase_cost |-> 5, retail_price |-> 10,
       quantity |-> 2, date_sold |-> None],
      [item_name |-> "case", purchase_cost |-> 5, retail_price |-> 0,
       quantity |-> 2, date_sold |-> Some(Date(2024, 1, 9))],
      [item_name |-> "Cable", purchase_cost |-> 12, retail_price |-> 10,
       quantity |-> 1, date_sold |-> Some(Date(2024, 1, 9))],
      [item_name |-> "case", purchase_cost |-> 5, retail_price |-> 15,
       quantity |-> 3, date_sold |-> Some(Date(2023, 12, 31))]>>

ReportSales == {ReportSaleSeq[k] : k \in 1..Len(ReportSaleSeq)}

\* InventoryItemCreate bodies: with and without a category, in stock, low on
\* stock, out of stock and of a quantity below 0.
ReportItems ==
    InventoryInputs \cup
    {[item_name |-> "Cable", purchase_cost |-> 8, suggested_retail_price |-> 12,
      quantity_in_stock |-> 0, reorder_level |-> 5, supplier |-> None,
      category |-> Some("Cables")],
     [item_name |-> "Charger", purchase_cost |-> 3, suggested_retail_price |-> 9,
      quantity_in_stock |-> 4, reorder_level |-> 2, supplier |-> None,
      category |-> Some("Phone Accessories")],
     [item_name |-> "Screen", purchase_cost |-> 2, suggested_retail_price |-> 6,
      quantity_in_stock |-> -1, reorder_level |-> 5, supplier |-> None,
      category |-> Some("Screens")]}

\* The sequences of at most n elements of a set.
SeqsUpTo(set, n) == UNION {[1..k -> set] : k \in 0..n}

\* The ledger after create_transaction of each input in turn.
Ledger(inputs) ==
    [i \in 1..Len(inputs) |->
        bson(transaction_for_db(NewSalesTransaction(inputs[i], i, 500)))]

\* The inventory store after create_inventory_item of each input in turn.
Stock(inputs) ==
    [i \in 1..Len(inputs) |-> bson(NewInventoryItem(inputs[i], i, 500))]

ReportInit ==
    /\ \/ /\ \E inputs \in SeqsUpTo(ReportSales, MaxRecords) :
                 transactions = Ledger(inputs)
          /\ inventory = <<>>
       \/ /\ transactions = <<>>
          /\ \E inputs \in SeqsUpTo(ReportItems, MaxRecords) :
                 inventory = Stock(inputs)
    /\ now = 500
    /\ nextId = Len(transactions) + Len(inventory) + 1
    /\ pc = [p \in Procs |-> "idle"]
    /\ local = [p \in Procs |-> Idle]
    /\ requests = 0
    /\ call = NoCall

\* A report was asked for and answered.
Answered(handler, response) ==
    [done |-> TRUE, input |-> Some(handler), output |-> Some(response)]

get_inventory_stats ==
    /\ ~call.done
    /\ call' = Answered("get_inventory_stats",
                        get_inventory_stats_response(inventory))
    /\ UNCHANGED <<transactions, inventory, now, nextId, pc, local, requests>>

get_dashboard_stats ==
    /\ ~call.done
    /\ call' = Answered("get_dashboard_stats",
                        get_dashboard_stats_response(transactions))
    /\ UNCHANGED <<transactions, inventory, now, nextId, pc, local, requests>>

get_sales_chart ==
    /\ ~call.done
    /\ call' = Answered("get_sales_chart",
                        get_sales_chart_response(transactions))
    /\ UNCHANGED <<transactions, inventory, now, nextId, pc, local, requests>>

ReportNext ==
    \/ get_inventory_stats
    \/ get_dashboard_stats
    \/ get_sales_chart

ReportSpec == ReportInit /\ [][ReportNext]_vars

(***************************************************************************)
(* The dashboard on ledgers of up to to_list_length + MaxRecords sales.    *)
(***************************************************************************)
LongLedgerInit ==
    /\ \E n \in 0..(to_list_length + MaxRecords) :
           transactions =
               Ledger([i \in 1..n |->
                          ReportSaleSeq[((i - 1) % Len(ReportSaleSeq)) + 1]])
    /\ inventory = <<>>
    /\ now = 500
    /\ nextId = Len(transactions) + 1
    /\ pc = [p \in Procs |-> "idle"]
    /\ local = [p \in Procs |-> Idle]
    /\ requests = 0
    /\ call = NoCall

LongLedgerNext == get_dashboard_stats

LongLedgerSpec == LongLedgerInit /\ [][LongLedgerNext]_vars

(***************************************************************************)
(* A sale of an item that two stock records are named after, while stock   *)
(* records are deleted: the store holds the two records, slot 1 creates    *)
(* sales and slot 2 deletes stock records.  The run holds two requests on  *)
(* top of the two that created the records.                                *)
(***************************************************************************)
DuplicateItems ==
    <<RaceItem,
      [item_name |-> RaceItem.item_name, purchase_cost |-> 8,
       suggested_retail_price |-> 12, quantity_in_stock |-> 0,
       reorder_level |-> 5, supplier |-> None, category |-> None]>>

DuplicateInit ==
    /\ transactions = <<>>
    /\ inventory = Stock(DuplicateItems)
    /\ now = 500
    /\ nextId = Len(DuplicateItems) + 1
    /\ pc = [p \in Procs |-> "idle"]
    /\ local = [p \in Procs |-> Idle]
    /\ requests = MaxRequests - 2
    /\ call = NoCall

DuplicateNext ==
    \/ CreateTransactionStep(1, [sale_inputs |-> RaceSaleInputs])
    \/ \E id \in Ids : delete_inventory_item(2, id)

DuplicateSpec == DuplicateInit /\ [][DuplicateNext]_vars

(***************************************************************************)
(* Properties.                                                             *)
(***************************************************************************)
Max0(x) == IF x < 0 THEN 0 ELSE x

AllIdle == \A p \in Procs : pc[p] = "idle"

HasId(coll, id) == \E i \in 1..Len(coll) : coll[i].id = id

\* C1: in every reachable state every stock record has
\* quantity_in_stock >= 0.
C1_StockNeverNegative ==
    \A i \in 1..Len(inventory) : inventory[i].quantity_in_stock >= 0

\* C2, as stated: when a sale of k pieces of item n is created with no other
\* request interleaved, every stock record named n that held q pieces holds
\* max(0, q - k) when create_transaction returns, and the sale is in the
\* ledger.
C2_EveryRecordOfTheNameDecremented ==
    [][\A p \in Procs :
          update_inventory_on_sale_update(p) =>
              LET sale == local[p].transaction_obj
              IN  /\ \A i \in Matches(inventory, "item_name", sale.item_name) :
                         inventory'[i].quantity_in_stock =
                             Max0(inventory[i].quantity_in_stock - sale.quantity)
                  /\ HasId(transactions', sale.id)]_vars

\* C2, amended: when a sale of k pieces of item n is created with no other
\* request interleaved and a stock record is named n, the first stock record
\* named n, which held q pieces, holds max(0, q - k) when create_transaction
\* returns, and the sale is in the ledger.
C2_FirstRecordOfTheNameDecremented ==
    [][\A p \in Procs :
          update_inventory_on_sale_update(p) =>
              LET sale == local[p].transaction_obj
                  named == Matches(inventory, "item_name", sale.item_name)
              IN  /\ named # {}
                  /\ \A i \in named :
                         (\A j \in named : i <= j) =>
                             inventory'[i].quantity_in_stock =
                                 Max0(inventory[i].quantity_in_stock - sale.quantity)
                  /\ HasId(transactions', sale.id)]_vars

\* C2, witness: the stock record created with 5 pieces holds 0 after a sale of
\* 2 and a sale of 10, both in the ledger.
C2_ClampedAfterTwoSales ==
    /\ AllIdle
    /\ \E i \in 1..Len(inventory) :
           /\ inventory[i].supplier = Some("Apple")
           /\ inventory[i].quantity_in_stock = 0
    /\ \E j, k \in 1..Len(transactions) :
           /\ transactions[j].quantity = 2
           /\ transactions[k].quantity = 10
           /\ transactions[j].item_name = "Case"
           /\ transactions[k].item_name = "Case"

\* C3: every sale record of the ledger has revenue = retail_price * quantity,
\* profit = (retail_price - purchase_cost) * quantity and profit_margin =
\* (retail_price - purchase_cost) / retail_price * 100 if retail_price > 0,
\* else 0, of its own stored fields, under every interleaving of creates and
\* updates.
C3_DerivedFieldsConsistent ==
    \A i \in 1..Len(transactions) :
        LET r == transactions[i]
        IN  /\ r.revenue = r.retail_price * r.quantity
            /\ r.profit = (r.retail_price - r.purchase_cost) * r.quantity
            /\ r.profit_margin.den > 0
            /\ IF r.retail_price > 0
               THEN r.profit_margin.num * r.retail_price =
                        (r.retail_price - r.purchase_cost) * 100 * r.profit_margin.den
               ELSE r.profit_margin.num = 0

\* C3, witness: an update that set purchase_cost and quantity is about to
\* write a record it read before another update renamed the record and set
\* its retail_price to 0.
C3_UpdateOverUpdate ==
    \E p \in Procs :
        /\ pc[p] = "update_transaction_update"
        /\ local[p].updated_transaction.purchase_cost = 12
        /\ local[p].updated_transaction.item_name = "Case"
        /\ \E i \in 1..Len(transactions) :
               /\ transactions[i].id = local[p].transaction_id
               /\ transactions[i].item_name = "case"
               /\ transactions[i].retail_price = 0
               /\ transactions[i].purchase_cost = 5

\* C4: a step that changes a stock record is no step of update_transaction
\* and no step of delete_transaction, whatever the id and the fields; it is
\* the synchronizer's write in create_transaction or a step of an inventory
\* endpoint.
C4_SaleUpdateDeleteLeaveInventory ==
    [][inventory' # inventory =>
          \A p \in Procs :
              /\ ~ \E id \in Ids, input \in SaleUpdates, t \in Instants :
                       update_transaction_find(p, id, input, t)
              /\ ~ update_transaction_update(p)
              /\ ~ \E id \in Ids : delete_transaction(p, id)
              /\ pc'[p] # pc[p] =>
                     pc[p] \in {"update_inventory_on_sale_update",
                                "update_inventory_item_update"}]_vars

\* C4, witness: a sale of 2 pieces took the stock from 5 to 3, an update then
\* set the sale's quantity to 3, and the stock record still holds 3.
C4_StockKeptAfterSaleUpdate ==
    /\ AllIdle
    /\ \E i \in 1..Len(transactions) :
           /\ transactions[i].quantity = 3
           /\ transactions[i].purchase_cost = 12
           /\ transactions[i].item_name = "Case"
    /\ \E j \in 1..Len(inventory) :
           /\ inventory[j].item_name = "Case"
           /\ inventory[j].quantity_in_stock = 3

\* C5: create_transaction appends the sale to the ledger; when no stock
\* record has exactly the sale's item name, the synchronizer returns without
\* an error and leaves every stock record as it was.
C5_UnmatchedSaleLeavesInventory ==
    [][\A p \in Procs :
          /\ (/\ pc[p] = "idle"
              /\ pc'[p] = "update_inventory_on_sale"
              /\ \E input \in SaleInputs, t \in Instants :
                     create_transaction(p, input, t))
                 => /\ Len(transactions') = Len(transactions) + 1
                    /\ SubSeq(transactions', 1, Len(transactions)) = transactions
                    /\ transactions'[Len(transactions')].id = nextId
          /\ (/\ pc[p] = "update_inventory_on_sale"
              /\ pc'[p] # pc[p]
              /\ \A i \in 1..Len(inventory) :
                     inventory[i].item_name # local[p].transaction_obj.item_name)
                 => /\ inventory' = inventory
                    /\ pc'[p] = "idle"
                    /\ now' = now]_vars

\* C5, witness: a sale of "Case" was created while the only stock record was
\* named "case"; the sale is in the ledger and the stock record is as it was
\* created.
C5_SaleOfUnstockedName ==
    /\ AllIdle
    /\ Len(inventory) = 1
    /\ Len(transactions) = 1
    /\ inventory[1].item_name = "case"
    /\ transactions[1].item_name = "Case"
    /\ inventory[1].id < transactions[1].id
    /\ inventory[1].quantity_in_stock = -1
    /\ inventory[1].updated_at = inventory[1].created_at

\* The places in the ledger of the sales of the item of RaceItem.
RaceSales ==
    {i \in 1..Len(transactions) : transactions[i].item_name = RaceItem.item_name}

\* C6: two concurrent sales of a and b pieces of an item stocked with q
\* pieces can both complete and leave a stock other than q - a - b: once both
\* have returned, the stock is max(0, q - a - b), or it is max(0, q - a) or
\* max(0, q - b), the write of one sale having been lost.
C6_TwoSalesLeaveOneOfThreeStocks ==
    (AllIdle /\ Cardinality(RaceSales) = 2) =>
        \E i, j \in RaceSales :
            /\ i < j
            /\ LET q == RaceItem.quantity_in_stock
                   a == transactions[i].quantity
                   b == transactions[j].quantity
               IN  inventory[1].quantity_in_stock \in
                       {Max0(q - a - b), Max0(q - a), Max0(q - b)}

\* C6, witness: both sales have returned, a + b <= q, and the stock is above
\* q - a - b.
C6_LostUpdate ==
    /\ AllIdle
    /\ Len(transactions) = 2
    /\ RaceSales = {1, 2}
    /\ transactions[1].quantity + transactions[2].quantity
           <= RaceItem.quantity_in_stock
    /\ inventory[1].quantity_in_stock >
           RaceItem.quantity_in_stock
               - transactions[1].quantity - transactions[2].quantity

\* C7: for purchase_cost >= 0, retail_price >= 0 and quantity >= 1 the
\* metrics calculator returns revenue = retail_price * quantity, profit =
\* (retail_price - purchase_cost) * quantity and profit_margin = 0 if
\* retail_price = 0, else (retail_price - purchase_cost) / retail_price * 100;
\* (5, 15, 1) gives profit 10 and revenue 15, (10, 10, 1) gives profit 0 and
\* margin 0, (5, 10, 5) gives profit 25 and revenue 50.
C7_MetricsOfEveryInput ==
    call.done =>
        LET input == call.input[1]
            output == call.output[1]
            Example(cost, price, qty) ==
                /\ input.purchase_cost = cost
                /\ input.retail_price = price
                /\ input.quantity = qty
        IN  /\ DOMAIN output = {"profit", "revenue", "profit_margin"}
            /\ output.revenue = input.retail_price * input.quantity
            /\ output.profit =
                   (input.retail_price - input.purchase_cost) * input.quantity
            /\ output.profit_margin.den > 0
            /\ IF input.retail_price = 0
               THEN output.profit_margin.num = 0
               ELSE output.profit_margin.num * input.retail_price =
                        (input.retail_price - input.purchase_cost) * 100
                            * output.profit_margin.den
            /\ Example(5, 15, 1) => output.profit = 10 /\ output.revenue = 15
            /\ Example(10, 10, 1) =>
                   output.profit = 0 /\ output.profit_margin.num = 0
            /\ Example(5, 10, 5) => output.profit = 25 /\ output.revenue = 50

\* C7, witness: the calculator was applied to cost 5, price 0, quantity 2,
\* and returned profit -10 and margin 0.
C7_MetricsOfPriceZero ==
    /\ call.done
    /\ call.input[1].purchase_cost = 5
    /\ call.input[1].retail_price = 0
    /\ call.input[1].quantity = 2
    /\ call.output[1].profit = -10
    /\ call.output[1].profit_margin.num = 0

BaseFields == {"item_name", "purchase_cost", "retail_price", "quantity", "date_sold"}

\* C8: an update of an existing sale, with no other request interleaved,
\* writes the supplied fields, keeps the id and every base field that was not
\* supplied, keeps the fields the record has, and leaves every other sale
\* record as it was.
C8_SaleUpdateKeepsUnsuppliedFields ==
    [][\A p \in Procs :
          /\ (\E id \in Ids, input \in SeqPayloads.sale_updates, t \in Instants :
                  update_transaction_find(p, id, input, t))
                 => transactions' = transactions
          /\ update_transaction_update(p) =>
                 LET update_data == local[p].update_data
                     i == FirstMatch(transactions, "id", local[p].transaction_id)
                 IN  /\ Matches(transactions, "id", local[p].transaction_id) # {}
                     /\ Len(transactions') = Len(transactions)
                     /\ \A j \in 1..Len(transactions) :
                            j # i => transactions'[j] = transactions[j]
                     /\ DOMAIN transactions'[i] = DOMAIN transactions[i]
                     /\ transactions'[i].id = transactions[i].id
                     /\ \A f \in BaseFields \ DOMAIN update_data :
                            transactions'[i][f] = transactions[i][f]
                     /\ \A f \in DOMAIN update_data :
                            transactions'[i][f] =
                                IF f = "date_sold" THEN isoformat(update_data[f])
                                ELSE update_data[f]]_vars

\* C8, witness: of two sales, one had only its retail_price set to 15: it
\* has the item name, cost, quantity and date it was created with, and
\* the other sale is as it was created.
C8_OnlyRetailPriceSet ==
    /\ AllIdle
    /\ Len(transactions) = 2
    /\ transactions[1].id = 1
    /\ transactions[1].retail_price = 15
    /\ transactions[1].item_name = "Case"
    /\ transactions[1].purchase_cost = 5
    /\ transactions[1].quantity = 2
    /\ transactions[1].revenue = 30
    /\ fromisoformat(transactions[1].date_sold) = date_today
    /\ transactions[2].id = 2
    /\ transactions[2].retail_price = 0
    /\ transactions[2].quantity = 10

\* C9: when create_transaction returns a record, get_transaction with the
\* record's id returns a record equal to it in every field.
C9_GetReturnsWhatCreateReturned ==
    [][\A p \in Procs :
          (update_inventory_on_sale_none(p) \/ update_inventory_on_sale_update(p))
              => get_transaction_response(transactions',
                                          local[p].transaction_obj.id)
                     = Ok(local[p].transaction_obj)]_vars

\* The ids no record of the store has.
Absent(coll) == {id \in Ids : ~HasId(coll, id)}

\* C10: get, update and delete of an id that no record of the addressed
\* store has answer NotFound, for sales and for stock records, and the
\* request changes neither the ledger nor the inventory store.
C10_AbsentIdIsNotFound ==
    /\ [](/\ \A id \in Absent(transactions) :
                 /\ get_transaction_response(transactions, id) = NotFound
                 /\ update_transaction_raises(transactions, id) = Some(NotFound)
                 /\ delete_transaction_response(transactions, id) = NotFound
          /\ \A id \in Absent(inventory) :
                 /\ get_inventory_item_response(inventory, id) = NotFound
                 /\ update_inventory_item_raises(inventory, id) = Some(NotFound)
                 /\ delete_inventory_item_response(inventory, id) = NotFound)
    /\ [][\A p \in Procs :
             /\ \A id \in Absent(transactions) :
                    (\/ get_transaction(p, id)
                     \/ \E input \in SaleUpdates, t \in Instants :
                            update_transaction_find(p, id, input, t)
                     \/ delete_transaction(p, id))
                        => /\ transactions' = transactions
                           /\ inventory' = inventory
                           /\ pc' = pc
             /\ \A id \in Absent(inventory) :
                    (\/ get_inventory_item(p, id)
                     \/ \E input \in InventoryUpdates, t \in Instants :
                            update_inventory_item_find(p, id, input, t)
                     \/ delete_inventory_item(p, id))
                        => /\ transactions' = transactions
                           /\ inventory' = inventory
                           /\ pc' = pc]_vars

\* C10, witness: two requests were served while neither store had ever held
\* a record; both stores are still empty.
C10_RequestsOnEmptyStores ==
    /\ AllIdle
    /\ requests = 2
    /\ nextId = 1
    /\ transactions = <<>>
    /\ inventory = <<>>

\* C11: an id that a store held and holds no more is never in the store
\* again, and get answers NotFound for it: delete removes the record of the
\* id, ids are never given twice, and neither a later update nor the write
\* of an update that read the record before the delete brings it back.
C11_DeletedIdStaysAbsent ==
    /\ [](/\ \A i \in 1..Len(transactions) : transactions[i].id < nextId
          /\ \A i \in 1..Len(inventory) : inventory[i].id < nextId)
    /\ [][\A id \in Ids :
             /\ (id < nextId /\ ~HasId(transactions, id))
                    => /\ ~HasId(transactions', id)
                       /\ get_transaction_response(transactions', id) = NotFound
             /\ (id < nextId /\ ~HasId(inventory, id))
                    => /\ ~HasId(inventory', id)
                       /\ get_inventory_item_response(inventory', id) = NotFound
             /\ HasId(transactions, id) =>
                    \A p \in Procs :
                        delete_transaction(p, id) => ~HasId(transactions', id)
             /\ HasId(inventory, id) =>
                    \A p \in Procs :
                        delete_inventory_item(p, id) => ~HasId(inventory', id)]_vars

\* C11, witness: an update has read a sale and not yet written it, and the
\* sale has been deleted meanwhile.
C11_UpdateOfDeletedSaleInFlight ==
    \E p \in Procs :
        /\ pc[p] = "update_transaction_update"
        /\ local[p].transaction_id < nextId
        /\ ~HasId(transactions, local[p].transaction_id)

\* C12: the dashboard's total_transactions is the number of sale records of
\* the ledger and its total_revenue and total_profit are the sums of revenue
\* and of profit over all of them, however many the ledger holds.
C12_TotalsOverWholeLedger ==
    (call.done /\ call.input = Some("get_dashboard_stats")) =>
        /\ call.output[1].status = 200
        /\ LET stats == call.output[1].body[1]
           IN  /\ stats.total_transactions = Len(transactions)
               /\ stats.total_revenue =
                      sum([i \in 1..Len(transactions) |-> transactions[i].revenue])
               /\ stats.total_profit =
                      sum([i \in 1..Len(transactions) |-> transactions[i].profit])

\* The dashboard has been asked for and returned.
DashboardReturned ==
    /\ call.done
    /\ call.input = Some("get_dashboard_stats")
    /\ call.output[1].status = 200

Dashboard == call.output[1].body[1]

\* The sum of the numbers Value(t) of the sale records t that satisfy Test.
SumWhere(Test(_), Value(_)) ==
    sum([i \in 1..Len(transactions) |->
            IF Test(transactions[i]) THEN Value(transactions[i]) ELSE 0])

Revenue(t) == t.revenue

Profit(t) == t.profit

Quantity(t) == t.quantity

\* C13: the dashboard's average_profit_margin is the sum of the positive
\* profit margins of the ledger divided by the number of sale records with a
\* positive margin, and 0 when no record has a positive margin.
C13_AverageOverPositiveMargins ==
    DashboardReturned =>
        LET positive == {i \in 1..Len(transactions) :
                            transactions[i].profit_margin.num > 0}
            total == sum_ratios([i \in 1..Len(transactions) |->
                                    IF i \in positive
                                    THEN transactions[i].profit_margin
                                    ELSE Ratio(0, 1)])
        IN  Dashboard.average_profit_margin =
                IF positive = {} THEN Ratio(0, 1)
                ELSE Ratio(total.num, total.den * Cardinality(positive))

\* C13, witness: of three sales with margins 50, 0 and -20 the dashboard
\* returned the average 50.
C13_AverageOfMixedMargins ==
    /\ DashboardReturned
    /\ Len(transactions) = 3
    /\ \E i \in 1..3 : transactions[i].profit_margin = Ratio(0, 1)
    /\ \E i \in 1..3 : transactions[i].profit_margin = Ratio(-20, 1)
    /\ \E i \in 1..3 : transactions[i].profit_margin = Ratio(50, 1)
    /\ Dashboard.average_profit_margin = Ratio(50, 1)

\* C14: for a ledger that is not empty the dashboard's best_selling_item is
\* an item name of the greatest quantity summed over its sale records, and
\* among the names of that quantity the one whose first sale record comes
\* first in the ledger.
C14_BestSellerIsFirstOfGreatest ==
    (DashboardReturned /\ transactions # <<>>) =>
        LET names == {transactions[i].item_name : i \in 1..Len(transactions)}
            Total(name) ==
                LET Named(t) == t.item_name = name
                IN  SumWhere(Named, Quantity)
            First(name) ==
                CHOOSE i \in 1..Len(transactions) :
                    /\ transactions[i].item_name = name
                    /\ \A j \in 1..(i - 1) : transactions[j].item_name # name
        IN  \E best \in names :
                /\ Dashboard.best_selling_item = Some(best)
                /\ \A name \in names :
                       /\ Total(name) <= Total(best)
                       /\ Total(name) = Total(best) => First(best) <= First(name)

\* C14, witness: "case" and "Case" were sold twice each, "case" first, and
\* the dashboard returned "case".
C14_TieGoesToFirstSold ==
    /\ DashboardReturned
    /\ Len(transactions) = 2
    /\ transactions[1].item_name = "case"
    /\ transactions[2].item_name = "Case"
    /\ transactions[1].quantity = transactions[2].quantity
    /\ Dashboard.best_selling_item = Some("case")

InventoryStatsAnswered ==
    /\ call.done
    /\ call.input = Some("get_inventory_stats")

InventoryStatsReturned ==
    /\ InventoryStatsAnswered
    /\ call.output[1].status = 200

InventoryStats == call.output[1].body[1]

C17_CategoriesWithUncategorized ==
    InventoryStatsAnswered =>
        /\ call.output[1].status = 200
        /\ InventoryStats.categories =
               {IF inventory[i].category = None THEN "Uncategorized"
                ELSE inventory[i].category[1] : i \in 1..Len(inventory)}

\* The sales chart has been asked for and returned.
SalesChartReturned ==
    /\ call.done
    /\ call.input = Some("get_sales_chart")
    /\ call.output[1].status = 200

SalesChart == call.output[1].body[1]

\* C18: the sales chart's labels, revenue_data and profit_data have the same
\* length; the labels are the date_sold strings of the ledger, each once, in
\* ascending order; revenue_data[i] and profit_data[i] are the sums of revenue
\* and of profit over the sale records whose date_sold is labels[i].
C18_ChartSequencesByDate ==
    SalesChartReturned =>
        LET labels == SalesChart.labels
            dates == {transactions[i].date_sold : i \in 1..Len(transactions)}
        IN  /\ Len(SalesChart.revenue_data) = Len(labels)
            /\ Len(SalesChart.profit_data) = Len(labels)
            /\ Len(labels) = Cardinality(dates)
            /\ {labels[k] : k \in 1..Len(labels)} = dates
            /\ \A k \in 1..(Len(labels) - 1) : str_less(labels[k], labels[k + 1])
            /\ \A k \in 1..Len(labels) :
                   LET OfDate(t) == t.date_sold = labels[k]
                   IN  /\ SalesChart.revenue_data[k] = SumWhere(OfDate, Revenue)
                       /\ SalesChart.profit_data[k] = SumWhere(OfDate, Profit)

\* C18, witness: sales of 2024-01-09 (revenue 0, profit -10), of 2023-12-31
\* (revenue 45, profit 30) and of 2024-01-09 again (revenue 10, profit -2)
\* gave the labels 2023-12-31, 2024-01-09 with revenues 45, 10 and profits
\* 30, -12.
C18_ChartOfTwoDates ==
    /\ SalesChartReturned
    /\ Len(transactions) = 3
    /\ transactions[1].date_sold = isoformat(Date(2024, 1, 9))
    /\ transactions[1].revenue = 0
    /\ transactions[2].date_sold = isoformat(Date(2023, 12, 31))
    /\ SalesChart.labels =
           <<isoformat(Date(2023, 12, 31)), isoformat(Date(2024, 1, 9))>>
    /\ SalesChart.revenue_data = <<45, 10>>
    /\ SalesChart.profit_data = <<30, -12>>

\* C19: a report of an empty store is returned: the dashboard with totals 0,
\* average margin 0, no best_selling_item and empty daily_sales; the
\* inventory report with counts 0, stock value 0 and no categories; the sales
\* chart with three empty sequences.
C19_ReportsOfEmptyStores ==
    call.done =>
        /\ (call.input = Some("get_dashboard_stats") /\ transactions = <<>>) =>
               call.output =
                   Some([status |-> 200,
                         body |-> Some([total_revenue |-> 0,
                                        total_profit |-> 0,
                                        total_transactions |-> 0,
                                        average_profit_margin |-> Ratio(0, 1),
                                        best_selling_item |-> None,
                                        daily_sales |-> <<>>])])
        /\ (call.input = Some("get_inventory_stats") /\ inventory = <<>>) =>
               call.output =
                   Some([status |-> 200,
                         body |-> Some([total_items |-> 0,
                                        total_stock_value |-> 0,
                                        low_stock_items |-> 0,
                                        out_of_stock_items |-> 0,
                                        categories |-> {}])])
        /\ (call.input = Some("get_sales_chart") /\ transactions = <<>>) =>
               call.output =
                   Some([status |-> 200,
                         body |-> Some([labels |-> <<>>,
                                        revenue_data |-> <<>>,
                                        profit_data |-> <<>>])])

\* C19, witness: with both stores empty the sales chart was returned with
\* no labels.
C19_ChartOfEmptyStores ==
    /\ transactions = <<>>
    /\ inventory = <<>>
    /\ SalesChartReturned
    /\ SalesChart.labels = <<>>

\* The fields of InventoryItemCreate.
StockFields ==
    {"item_name", "purchase_cost", "suggested_retail_price",
     "quantity_in_stock", "reorder_level", "supplier", "category"}

\* C20: an update of an existing stock record, with no other request
\* interleaved, writes the supplied fields, keeps the id, created_at and
\* every field that was not supplied, and leaves every other stock record and
\* the ledger as they were.
C20_InventoryUpdateKeepsUnsuppliedFields ==
    [][\A p \in Procs :
          /\ (inventory' # inventory \/ transactions' # transactions) =>
                 ~ \E id \in Ids, input \in SeqPayloads.inventory_updates,
                      t \in Instants :
                       update_inventory_item_find(p, id, input, t)
          /\ update_inventory_item_update(p) =>
                 LET update_data == local[p].update_data
                     i == FirstMatch(inventory, "id", local[p].item_id)
                 IN  /\ Matches(inventory, "id", local[p].item_id) # {}
                     /\ transactions' = transactions
                     /\ Len(inventory') = Len(inventory)
                     /\ \A j \in 1..Len(inventory) :
                            j # i => inventory'[j] = inventory[j]
                     /\ DOMAIN inventory'[i] = DOMAIN inventory[i]
                     /\ inventory'[i].id = inventory[i].id
                     /\ inventory'[i].created_at = inventory[i].created_at
                     /\ \A f \in StockFields \ DOMAIN update_data :
                            inventory'[i][f] = inventory[i][f]
                     /\ \A f \in DOMAIN update_data :
                            inventory'[i][f] = update_data[f]]_vars

\* C20, witness: of two stock records, one had only its quantity_in_stock
\* set to 7: it has the supplier, category and reorder level it was created
\* with, and the other record is as it was created.
C20_OnlyQuantityInStockSet ==
    /\ AllIdle
    /\ requests = 3
    /\ transactions = <<>>
    /\ Len(inventory) = 2
    /\ inventory[1].id = 1
    /\ inventory[1].quantity_in_stock = 7
    /\ inventory[1].item_name = "Case"
    /\ inventory[1].supplier = Some("Apple")
    /\ inventory[1].category = Some("Phone Accessories")
    /\ inventory[1].reorder_level = 5
    /\ inventory[2].id = 2
    /\ inventory[2].item_name = "case"
    /\ inventory[2].quantity_in_stock = -1

\* C21: get_transactions returns the sale records in descending order of
\* created_at, and when one request is served at a time the record that a
\* create has just inserted, or an update has just written, is the first
\* record of every response get_transactions may give.
C21_MostRecentComesFirst ==
    /\ [](\A response \in get_transactions_responses(transactions) :
              \A i, j \in 1..Len(response.body[1]) :
                  i < j => response.body[1][i].created_at
                               >= response.body[1][j].created_at)
    /\ [][\A p \in Procs :
             /\ (pc[p] = "idle" /\ pc'[p] = "update_inventory_on_sale") =>
                    \A response \in get_transactions_responses(transactions') :
                        response.body[1][1].id = local'[p].transaction_obj.id
             /\ update_transaction_update(p) =>
                    \A response \in get_transactions_responses(transactions') :
                        response.body[1][1].id = local[p].transaction_id]_vars

\* Where a create_transaction stands while update_inventory_on_sale runs.
InUpdateInventoryOnSale ==
    {"update_inventory_on_sale", "update_inventory_on_sale_update"}

\* C22: a create_transaction adjusts the stock only after it has inserted its
\* sale: the step that takes a request into update_inventory_on_sale inserts
\* the sale record, of an id the ledger did not hold, and leaves the
\* inventory as it is; the request keeps that sale while it is in
\* update_inventory_on_sale, where alone it writes the stock; and the sale is
\* in the ledger then unless a delete_transaction removes it.
C22_StockAdjustedAfterSaleInserted ==
    [][\A p \in Procs :
          /\ pc'[p] \in InUpdateInventoryOnSale =>
                 IF pc[p] \in InUpdateInventoryOnSale
                 THEN /\ local'[p].transaction_obj = local[p].transaction_obj
                      /\ (/\ HasId(transactions, local[p].transaction_obj.id)
                          /\ ~HasId(transactions', local[p].transaction_obj.id))
                             => \E q \in Procs \ {p} :
                                    delete_transaction(q, local[p].transaction_obj.id)
                 ELSE /\ ~HasId(transactions, local'[p].transaction_obj.id)
                      /\ find_one(transactions', "id", local'[p].transaction_obj.id)
                             = Some(bson(transaction_for_db(
                                             local'[p].transaction_obj)))
                      /\ inventory' = inventory
          /\ update_inventory_on_sale_update(p) =>
                 /\ pc[p] \in InUpdateInventoryOnSale
                 /\ local[p].transaction_obj.id < nextId
                 /\ transactions' = transactions]_vars

\* C22, witness: a sale of two pieces is in the ledger, its create has
\* returned, and the stock record of its item went from 5 to 3.
C22_SaleInLedgerAndStockAdjusted ==
    /\ AllIdle
    /\ Len(transactions) = 1
    /\ transactions[1].item_name = "Case"
    /\ transactions[1].quantity = 2
    /\ Len(inventory) = 1
    /\ inventory[1].item_name = "Case"
    /\ inventory[1].quantity_in_stock = 3

\* Where a create_transaction stands after its insert_one.
InCreateTransaction ==
    InUpdateInventoryOnSale \cup {"create_transaction_raised"}

\* C23: when find_one or update_one of update_inventory_on_sale raises, the
\* sale that was inserted stays in the ledger and no stock record is written:
\* the request is answered with the error, and no step of it after the
\* insert other than the update_one that did not raise changes the ledger or
\* the inventory; once it has raised it does nothing but answer.
C23_NoRollbackAfterFailedAdjustment ==
    /\ [](\A p \in Procs :
              pc[p] = "create_transaction_raised" =>
                  /\ local[p].raised = InternalServerError
                  /\ find_one(transactions, "id", local[p].transaction_obj.id)
                         = Some(bson(transaction_for_db(local[p].transaction_obj))))
    /\ [][\A p \in Procs :
             /\ update_inventory_on_sale_raises(p) =>
                    /\ transactions' = transactions
                    /\ inventory' = inventory
                    /\ pc'[p] = "create_transaction_raised"
             /\ pc[p] \in InCreateTransaction =>
                    /\ transactions' = transactions
                    /\ inventory' # inventory =>
                           update_inventory_on_sale_update(p)
             /\ pc[p] = "create_transaction_raised" =>
                    pc'[p] \in {"create_transaction_raised", "idle"}]_vars

\* C23, witness: a stock record of 5 pieces was created, then a sale of two
\* pieces of its item; the sale is in the ledger, its request is over, and
\* the stock record has 5 pieces.
C23_SaleKeptStockNotAdjusted ==
    /\ AllIdle
    /\ requests = 2
    /\ Len(inventory) = 1
    /\ inventory[1].id = 1
    /\ inventory[1].item_name = "Case"
    /\ inventory[1].quantity_in_stock = 5
    /\ Len(transactions) = 1
    /\ transactions[1].id = 2
    /\ transactions[1].item_name = "Case"
    /\ transactions[1].quantity = 2

\* C24: the update_one of a sale create leaves no stock record with a
\* greater quantity_in_stock than it had, whatever integer the sale's
\* quantity is.
C24_SaleNeverIncreasesStock ==
    [][\A p \in Procs :
          update_inventory_on_sale_update(p) =>
              /\ Len(inventory') = Len(inventory)
              /\ \A i \in 1..Len(inventory) :
                     inventory'[i].quantity_in_stock
                         <= inventory[i].quantity_in_stock]_vars

\* The pieces of the item of RaceItem sold by the sales of the ledger.
RaceSold ==
    LET OfRaceItem(t) == t.item_name = RaceItem.item_name
    IN  SumWhere(OfRaceItem, Quantity)

\* C25: while only creates of sales of positive quantities act on a stock
\* record that started with q >= 0 pieces, the record's quantity_in_stock is
\* at least max(0, q - the sum of the quantities sold) and at most q, in
\* every state of every interleaving of the creates.
C25_StockBetweenSoldOutAndInitial ==
    /\ Len(inventory) = 1
    /\ inventory[1].quantity_in_stock >=
           Max0(RaceItem.quantity_in_stock - RaceSold)
    /\ inventory[1].quantity_in_stock <= RaceItem.quantity_in_stock

\* C25, witness: sales of 4 and of 5 pieces of an item stocked with 5 pieces
\* have both returned, and the stock is 1: one piece more than the sales
\* left, the write of the sale of 5 having been lost.
C25_StockAboveWhatWasLeft ==
    /\ AllIdle
    /\ RaceSales = {1, 2}
    /\ {transactions[1].quantity, transactions[2].quantity} = {4, 5}
    /\ RaceItem.quantity_in_stock = 5
    /\ inventory[1].quantity_in_stock = 1

\* C26: the update_one of an update_inventory_item whose body does not set
\* quantity_in_stock leaves the quantity_in_stock of every stock record as
\* it is in the store, also when a sale has written it since the update
\* read the record.
C26_UpdateKeepsStoredQuantity ==
    [][\A p \in Procs :
          (/\ update_inventory_item_update(p)
           /\ "quantity_in_stock" \notin DOMAIN local[p].update_data) =>
              /\ Len(inventory') = Len(inventory)
              /\ \A i \in 1..Len(inventory) :
                     inventory'[i].quantity_in_stock
                         = inventory[i].quantity_in_stock]_vars

\* C27: when stock records are named after the item of a sale, the
\* update_one of the sale's create writes one of them, which then holds
\* max(0, the quantity it held - the quantity sold), and leaves every other
\* stock record as it was.
C27_OneRecordOfTheNameDecremented ==
    [][\A p \in Procs :
          update_inventory_on_sale_update(p) =>
              LET sale == local[p].transaction_obj
                  named == Matches(inventory, "item_name", sale.item_name)
              IN  /\ Len(inventory') = Len(inventory)
                  /\ named # {} =>
                         \E i \in named :
                             /\ inventory'[i].quantity_in_stock =
                                    Max0(inventory[i].quantity_in_stock
                                             - sale.quantity)
                             /\ \A j \in 1..Len(inventory) :
                                    j # i => inventory'[j] = inventory[j]]_vars

\* C28: when the update_one of an update_transaction is done and the
\* handler returns its merged record, the ledger holds under the record's id
\* the merged record as the store keeps it, also when the sale was deleted
\* after the update read it.
C28_ReturnedUpdateIsInLedger ==
    [][\A p \in Procs :
          update_transaction_update(p) =>
              find_one(transactions', "id", local[p].transaction_id)
                  = Some(bson(transaction_for_db(
                                  local[p].updated_transaction)))]_vars

====
